---- MODULE Spec2Model ----
(***************************************************************************)
(* Personal Library Manager (library_manager.py).                          *)
(*                                                                         *)
(* The program is a Streamlit script: every user interaction re-runs       *)
(* main() from the top, with st.session_state.library surviving between    *)
(* runs.  One run of main() is one step of the model: the startup load     *)
(* (when the session library is falsy), then the function of the selected  *)
(* menu entry.                                                             *)
(*                                                                         *)
(* Text is a sequence of one-character strings, so that strip(), lower()   *)
(* and the substring test are computed character by character.  The        *)
(* persisted file is a sequence of JSON tokens, written by json_dump and   *)
(* read back by json_load.                                                 *)
(***************************************************************************)
EXTENDS Integers, Sequences, FiniteSets, TLC

VARIABLES
    library,    \* st.session_state.library
    file,       \* library.txt on disk: [kind, text]
    started,    \* TRUE once the first run of main() has happened
    menu,       \* the menu entry of the last run
    input,      \* the widget values of the last run
    loadCond,   \* what load_library reported in the last run ("none": not called)
    called,     \* the library the menu function of the last run was called on
    outcome,    \* what the menu function of the last run reported
    matches,    \* the rows search_book showed in the last run
    stats       \* the figures display_statistics computed in the last run

vars == <<library, file, started, menu, input, loadCond, called, outcome, matches, stats>>

\* Largest number of records the model lets the library grow to.
MaxBooks == 2

(***************************************************************************)
(* Text: str.strip(), str.lower(), `x in y`                                *)
(***************************************************************************)
LowerChar(c) ==
    IF c = "A" THEN "a" ELSE IF c = "B" THEN "b" ELSE IF c = "G" THEN "g" ELSE c

lower(s) == [i \in 1..Len(s) |-> LowerChar(s[i])]

RECURSIVE lstrip(_)
lstrip(s) ==
    IF s = <<>> THEN s
    ELSE IF Head(s) = " " THEN lstrip(Tail(s)) ELSE s

RECURSIVE rstrip(_)
rstrip(s) ==
    IF s = <<>> THEN s
    ELSE IF s[Len(s)] = " " THEN rstrip(SubSeq(s, 1, Len(s) - 1)) ELSE s

strip(s) == rstrip(lstrip(s))

\* Python's `sub in s` for strings.
Contains(sub, s) ==
    \E i \in 0..(Len(s) - Len(sub)) : SubSeq(s, i + 1, i + Len(sub)) = sub

(***************************************************************************)
(* JSON values and the file's text                                         *)
(*                                                                         *)
(* A book is the dict built by add_book: a record with the five keys.  A   *)
(* JSON number that is an element of the array is [num |-> n].  The text   *)
(* is a sequence of tokens; commas, colons and indentation are left out.   *)
(***************************************************************************)
BookKeys == {"title", "author", "year", "genre", "read"}

IsBook(e) == DOMAIN e = BookKeys

LB == [p |-> "["]
RB == [p |-> "]"]
LC == [p |-> "{"]
RC == [p |-> "}"]

DumpElem(e) ==
    IF IsBook(e)
    THEN << LC,
            [key |-> "title"],  [str |-> e.title],
            [key |-> "author"], [str |-> e.author],
            [key |-> "year"],   [num |-> e.year],
            [key |-> "genre"],  [str |-> e.genre],
            [key |-> "read"],   [bool |-> e.read],
            RC >>
    ELSE << e >>

RECURSIVE DumpElems(_)
DumpElems(lib) ==
    IF lib = <<>> THEN <<>> ELSE DumpElem(Head(lib)) \o DumpElems(Tail(lib))

\* json.dump(library, file, indent=4)
json_dump(lib) == <<LB>> \o DumpElems(lib) \o <<RB>>

ParseFail == [ok |-> FALSE, value |-> <<>>, next |-> 0]

IsScalar(t) == DOMAIN t \in {{"str"}, {"num"}, {"bool"}}

ScalarValue(t) ==
    IF DOMAIN t = {"str"} THEN t.str
    ELSE IF DOMAIN t = {"num"} THEN t.num
    ELSE t.bool

\* A decoded object: the dict with the five keys is a book.
MakeObject(obj) ==
    IF DOMAIN obj = BookKeys
    THEN [title |-> obj["title"], author |-> obj["author"], year |-> obj["year"],
          genre |-> obj["genre"], read |-> obj["read"]]
    ELSE obj

RECURSIVE ParseObject(_, _, _)
ParseObject(toks, i, obj) ==
    IF i > Len(toks) THEN ParseFail
    ELSE IF toks[i] = RC THEN [ok |-> TRUE, value |-> MakeObject(obj), next |-> i + 1]
    ELSE IF DOMAIN toks[i] = {"key"} /\ i + 1 <= Len(toks) /\ IsScalar(toks[i + 1])
         THEN ParseObject(toks, i + 2, (toks[i].key :> ScalarValue(toks[i + 1])) @@ obj)
    ELSE ParseFail

RECURSIVE ParseArray(_, _, _)
ParseArray(toks, i, acc) ==
    IF i > Len(toks) THEN ParseFail
    ELSE IF toks[i] = RB THEN [ok |-> TRUE, value |-> acc, next |-> i + 1]
    ELSE IF DOMAIN toks[i] = {"num"}
         THEN ParseArray(toks, i + 1, Append(acc, [num |-> toks[i].num]))
    ELSE IF toks[i] = LC
         THEN LET o == ParseObject(toks, i + 1, [k \in {} |-> 0])
              IN  IF o.ok THEN ParseArray(toks, o.next, Append(acc, o.value))
                  ELSE ParseFail
    ELSE ParseFail

\* json.load(file) of a text whose top-level value is an array: ok = FALSE is
\* json.JSONDecodeError.
json_load(toks) ==
    IF toks = <<>> \/ toks[1] # LB THEN ParseFail
    ELSE LET r == ParseArray(toks, 2, <<>>)
         IN  IF r.ok /\ r.next = Len(toks) + 1 THEN r ELSE ParseFail

(***************************************************************************)
(* The functions of library_manager.py.  Each takes the session library   *)
(* (and the file, the widget values) and gives what it leaves behind.      *)
(* outcome "fault" is an exception nobody catches: the run of main() ends  *)
(* there.                                                                  *)
(***************************************************************************)
AllBooks(lib) == \A i \in 1..Len(lib) : IsBook(lib[i])

\* load_library with the except clause left out: a text that does not parse
\* raises out of main().
load_library_no_except(lib, fil) ==
    IF fil.kind = "absent"
    THEN [library |-> lib, cond |-> "NotFound"]
    ELSE IF fil.kind = "unreadable"
    THEN [library |-> lib, cond |-> "fault"]
    ELSE LET p == json_load(fil.text)
         IN  IF p.ok THEN [library |-> p.value, cond |-> "loaded"]
             ELSE [library |-> lib, cond |-> "fault"]

\* load_library(): called only from main(), on a falsy library.
load_library(lib, fil) ==
    IF fil.kind = "absent"
    THEN [library |-> lib, cond |-> "NotFound"]
    ELSE IF fil.kind = "unreadable"
    THEN [library |-> lib, cond |-> "fault"]
    ELSE LET p == json_load(fil.text)
         IN  IF p.ok THEN [library |-> p.value, cond |-> "loaded"]
             ELSE [library |-> <<>>, cond |-> "CorruptData"]

\* save_library(): io is what the operating system does with the write.
save_library(lib, fil, io) ==
    IF io.fails = "open"
    THEN [file |-> fil, outcome |-> "IOFailure"]
    ELSE IF io.fails = "write"
    THEN [file |-> [kind |-> "text", text |-> SubSeq(json_dump(lib), 1, io.kept)],
          outcome |-> "IOFailure"]
    ELSE [file |-> [kind |-> "text", text |-> json_dump(lib)], outcome |-> "saved"]

\* add_book storing the fields as typed, without strip().
add_book_unstripped(lib, form) ==
    IF ~form.submit THEN [library |-> lib, outcome |-> "idle"]
    ELSE IF strip(form.title) # <<>> /\ strip(form.author) # <<>> /\ strip(form.genre) # <<>>
    THEN [library |-> Append(lib, [title  |-> form.title,
                                   author |-> form.author,
                                   year   |-> form.year,
                                   genre  |-> form.genre,
                                   read   |-> (form.read = "Yes")]),
          outcome |-> "added"]
    ELSE [library |-> lib, outcome |-> "ValidationError"]

\* add_book testing the fields as typed: blanks count as filled in.
add_book_raw_check(lib, form) ==
    IF ~form.submit THEN [library |-> lib, outcome |-> "idle"]
    ELSE IF form.title # <<>> /\ form.author # <<>> /\ form.genre # <<>>
    THEN [library |-> Append(lib, [title  |-> strip(form.title),
                                   author |-> strip(form.author),
                                   year   |-> form.year,
                                   genre  |-> strip(form.genre),
                                   read   |-> (form.read = "Yes")]),
          outcome |-> "added"]
    ELSE [library |-> lib, outcome |-> "ValidationError"]

add_book(lib, form) ==
    IF ~form.submit THEN [library |-> lib, outcome |-> "idle"]
    ELSE IF strip(form.title) # <<>> /\ strip(form.author) # <<>> /\ strip(form.genre) # <<>>
    THEN [library |-> Append(lib, [title  |-> strip(form.title),
                                   author |-> strip(form.author),
                                   year   |-> form.year,
                                   genre  |-> strip(form.genre),
                                   read   |-> (form.read = "Yes")]),
          outcome |-> "added"]
    ELSE [library |-> lib, outcome |-> "ValidationError"]

\* list.remove(x): deletes the first element equal to x.
ListRemove(lib, x) ==
    LET k == CHOOSE i \in 1..Len(lib) :
                 lib[i] = x /\ \A j \in 1..(i - 1) : lib[j] # x
    IN  SubSeq(lib, 1, k - 1) \o SubSeq(lib, k + 1, Len(lib))

\* The loop of remove_book over the copy library[:], from position i on.
RECURSIVE RemoveScan(_, _, _)
RemoveScan(lib, i, wanted) ==
    IF i > Len(lib) THEN [library |-> lib, outcome |-> "BookNotFound"]
    ELSE IF ~IsBook(lib[i]) THEN [library |-> lib, outcome |-> "fault"]
    ELSE IF lower(lib[i].title) = wanted
         THEN [library |-> ListRemove(lib, lib[i]), outcome |-> "removed"]
    ELSE RemoveScan(lib, i + 1, wanted)

\* remove_book comparing against the typed title without lower().
remove_book_typed_case(lib, title, clicked) ==
    IF ~clicked THEN [library |-> lib, outcome |-> "idle"]
    ELSE IF strip(title) # <<>> THEN RemoveScan(lib, 1, strip(title))
    ELSE [library |-> lib, outcome |-> "ValidationError"]

remove_book(lib, title, clicked) ==
    IF ~clicked THEN [library |-> lib, outcome |-> "idle"]
    ELSE IF strip(title) # <<>> THEN RemoveScan(lib, 1, lower(strip(title)))
    ELSE [library |-> lib, outcome |-> "ValidationError"]

\* The list comprehensions of search_book.
SearchMatches(lib, search_by, term) ==
    IF search_by = "Title"
    THEN SelectSeq(lib, LAMBDA book : Contains(lower(term), lower(book.title)))
    ELSE SelectSeq(lib, LAMBDA book : Contains(lower(term), lower(book.author)))

search_book(lib, search_by, term, clicked) ==
    IF ~clicked THEN [matches |-> <<>>, outcome |-> "idle"]
    ELSE IF strip(term) # <<>>
    THEN IF ~AllBooks(lib) THEN [matches |-> <<>>, outcome |-> "fault"]
         ELSE LET m == SearchMatches(lib, search_by, term)
              IN  [matches |-> m, outcome |-> IF m # <<>> THEN "matches" ELSE "noMatches"]
    ELSE [matches |-> <<>>, outcome |-> "ValidationError"]

display_all_books(lib) ==
    IF lib # <<>>
    THEN IF AllBooks(lib) THEN [outcome |-> "listed"] ELSE [outcome |-> "fault"]
    ELSE [outcome |-> "empty"]

NoStats == [shown |-> FALSE]

\* percentage_read without the factor 100.
percentage_read_ratio(read_books, total_books) ==
    IF total_books > 0
    THEN (20 * read_books + total_books) \div (2 * total_books)
    ELSE 0

\* percentage_read as line 118 shows it (one decimal), in tenths of a percent.
percentage_read(read_books, total_books) ==
    IF total_books > 0
    THEN (2000 * read_books + total_books) \div (2 * total_books)
    ELSE 0

display_statistics(lib) ==
    IF lib # <<>>
    THEN IF ~AllBooks(lib) THEN [stats |-> NoStats, outcome |-> "fault"]
         ELSE LET total_books == Len(lib)
                  read_books  == Cardinality({i \in 1..Len(lib) : lib[i].read})
              IN  [stats |-> [shown |-> TRUE, total |-> total_books, read |-> read_books,
                              percent |-> percentage_read(read_books, total_books)],
                   outcome |-> "stats"]
    ELSE [stats |-> NoStats, outcome |-> "empty"]

(***************************************************************************)
(* What the user can enter, and what library.txt can hold at the start     *)
(***************************************************************************)
\* min_value and max_value of the year's st.number_input.
MinYear == 1
MaxYear == 2025

\* The add form as the first run renders it, not submitted.
DefaultForm ==
    [title |-> <<>>, author |-> <<>>, year |-> MinYear, genre |-> <<>>, read |-> "Yes",
     submit |-> FALSE]

\* Contents of the add form; year is held to 1..2025 by st.number_input.
AddForms ==
    { DefaultForm,
      [title |-> <<"a">>, author |-> <<"A", "b">>, year |-> MinYear, genre |-> <<"g">>,
       read |-> "Yes", submit |-> TRUE],
      [title |-> <<" ", "A">>, author |-> <<"A", "b", " ">>, year |-> MaxYear,
       genre |-> <<"g">>, read |-> "No", submit |-> TRUE],
      [title |-> <<"a", "b">>, author |-> <<"A", "b">>, year |-> MaxYear,
       genre |-> <<" ", "g", " ">>, read |-> "Yes", submit |-> TRUE],
      [title |-> <<>>, author |-> <<"A", "b">>, year |-> MinYear, genre |-> <<"g">>,
       read |-> "Yes", submit |-> TRUE],
      [title |-> <<" ">>, author |-> <<"A", "b">>, year |-> MinYear, genre |-> <<"g">>,
       read |-> "No", submit |-> TRUE],
      [title |-> <<"a">>, author |-> <<" ", " ">>, year |-> MinYear, genre |-> <<"g">>,
       read |-> "Yes", submit |-> TRUE],
      [title |-> <<"a">>, author |-> <<"A", "b">>, year |-> MaxYear, genre |-> <<>>,
       read |-> "Yes", submit |-> TRUE] }

\* Titles typed into the remove box.
RemoveTitles == { <<>>, <<" ">>, <<"A", " ">>, <<" ", "a", "B">>, <<"b">> }

\* Terms typed into the search box.
SearchTerms == { <<>>, <<" ">>, <<"A">>, <<" ", "a">>, <<"b">> }

SearchFields == {"Title", "Author"}

\* How the write of save_library can go: it succeeds, open() raises, or a
\* write raises after the file was truncated and `kept` tokens reached it.
SaveIO ==
    { [fails |-> "no", kept |-> 0], [fails |-> "open", kept |-> 0],
      [fails |-> "write", kept |-> 0], [fails |-> "write", kept |-> 1] }

Absent == [kind |-> "absent", text |-> <<>>]

Text(toks) == [kind |-> "text", text |-> toks]

\* library.txt before the first run: missing, present but not readable, cut
\* off in the middle, an empty array, an array whose element is no book, two
\* books titled alike (written in another key order than save uses), and a
\* book that breaks the constraints of the data model.
InitialFiles ==
    { Absent,
      [kind |-> "unreadable", text |-> <<>>],
      Text(<<LB, LC, [key |-> "title"]>>),
      Text(<<LB, RB>>),
      Text(<<LB, [num |-> 1], RB>>),
      Text(<<LB,
             LC, [key |-> "read"], [bool |-> TRUE], [key |-> "year"], [num |-> 1],
                 [key |-> "title"], [str |-> <<"a">>], [key |-> "genre"], [str |-> <<"g">>],
                 [key |-> "author"], [str |-> <<"A", "b">>], RC,
             LC, [key |-> "title"], [str |-> <<"A">>], [key |-> "author"],
                 [str |-> <<"A", "b">>], [key |-> "year"], [num |-> 2025],
                 [key |-> "genre"], [str |-> <<"g">>], [key |-> "read"], [bool |-> FALSE], RC,
             RB>>),
      Text(<<LB,
             LC, [key |-> "title"], [str |-> <<" ", "a">>], [key |-> "author"],
                 [str |-> <<"A", "b">>], [key |-> "year"], [num |-> 3000],
                 [key |-> "genre"], [str |-> <<"g">>], [key |-> "read"], [bool |-> TRUE], RC,
             RB>>) }

(***************************************************************************)
(* main(): one run of the script                                           *)
(***************************************************************************)
\* "Load library at startup": runs whenever the session library is falsy.
Startup(lib, fil) ==
    IF lib = <<>> THEN load_library(lib, fil)
    ELSE [library |-> lib, cond |-> "none"]

\* The state a run of main() leaves: s is what Startup gave, r what the menu
\* function gave.  When load_library raised, the menu function never ran.
Finish(m, inp, s, r) ==
    /\ started' = TRUE
    /\ menu' = m
    /\ input' = inp
    /\ loadCond' = s.cond
    /\ called' = s.library
    /\ library' = IF s.cond = "fault" THEN s.library ELSE r.library
    /\ file' = IF s.cond = "fault" THEN file ELSE r.file
    /\ outcome' = IF s.cond = "fault" THEN "fault" ELSE r.outcome
    /\ matches' = IF s.cond = "fault" THEN <<>> ELSE r.matches
    /\ stats' = IF s.cond = "fault" THEN NoStats ELSE r.stats

Init ==
    /\ library = <<>>
    /\ file \in InitialFiles
    /\ started = FALSE
    /\ menu = "none"
    /\ input = [none |-> TRUE]
    /\ loadCond = "none"
    /\ called = <<>>
    /\ outcome = "none"
    /\ matches = <<>>
    /\ stats = NoStats

\* The first run shows the first menu entry with nothing submitted.
MenuAdd ==
    \E form \in AddForms :
        /\ started \/ form = DefaultForm
        /\ LET s == Startup(library, file)
               r == add_book(s.library, form)
           IN  /\ form.submit => Len(s.library) < MaxBooks
               /\ Finish("Add a Book", form, s,
                         [library |-> r.library, file |-> file, outcome |-> r.outcome,
                          matches |-> <<>>, stats |-> NoStats])

\* MenuRemove writing the file after every removal.
MenuRemoveAutosave ==
    /\ started
    /\ \E title \in RemoveTitles, clicked \in BOOLEAN :
        LET s == Startup(library, file)
            r == remove_book(s.library, title, clicked)
        IN  Finish("Remove a Book", [title |-> title, clicked |-> clicked], s,
                   [library |-> r.library,
                    file |-> IF r.outcome = "removed" THEN Text(json_dump(r.library))
                             ELSE file,
                    outcome |-> r.outcome, matches |-> <<>>, stats |-> NoStats])

MenuRemove ==
    /\ started
    /\ \E title \in RemoveTitles, clicked \in BOOLEAN :
        LET s == Startup(library, file)
            r == remove_book(s.library, title, clicked)
        IN  Finish("Remove a Book", [title |-> title, clicked |-> clicked], s,
                   [library |-> r.library, file |-> file, outcome |-> r.outcome,
                    matches |-> <<>>, stats |-> NoStats])

MenuSearch ==
    /\ started
    /\ \E search_by \in SearchFields, term \in SearchTerms, clicked \in BOOLEAN :
        LET s == Startup(library, file)
            r == search_book(s.library, search_by, term, clicked)
        IN  Finish("Search for a Book",
                   [search_by |-> search_by, term |-> term, clicked |-> clicked], s,
                   [library |-> s.library, file |-> file, outcome |-> r.outcome,
                    matches |-> r.matches, stats |-> NoStats])

MenuDisplayAll ==
    /\ started
    /\ LET s == Startup(library, file)
           r == display_all_books(s.library)
       IN  Finish("Display All Books", [none |-> TRUE], s,
                  [library |-> s.library, file |-> file, outcome |-> r.outcome,
                   matches |-> <<>>, stats |-> NoStats])

MenuStatistics ==
    /\ started
    /\ LET s == Startup(library, file)
           r == display_statistics(s.library)
       IN  Finish("Display Statistics", [none |-> TRUE], s,
                  [library |-> s.library, file |-> file, outcome |-> r.outcome,
                   matches |-> <<>>, stats |-> r.stats])

MenuSaveExit ==
    /\ started
    /\ \E io \in SaveIO :
        LET s == Startup(library, file)
            r == save_library(s.library, file, io)
        IN  Finish("Save and Exit", [io |-> io], s,
                   [library |-> s.library, file |-> r.file, outcome |-> r.outcome,
                    matches |-> <<>>, stats |-> NoStats])

Next ==
    \/ MenuAdd
    \/ MenuRemove
    \/ MenuSearch
    \/ MenuDisplayAll
    \/ MenuStatistics
    \/ MenuSaveExit

Spec == Init /\ [][Next]_vars

(***************************************************************************)
(* Properties                                                              *)
(***************************************************************************)
Range(seq) == {seq[i] : i \in 1..Len(seq)}

\* The menu function of the last run was entered (load_library did not raise).
Entered(m) == menu = m /\ loadCond # "fault"

\* Positions of `lib` whose title equals `title`, trimmed, whatever the case.
TitleHits(lib, title) ==
    {i \in 1..Len(lib) : lower(lib[i].title) = lower(strip(title))}

\* `lib` without the element at position k.
Without(lib, k) == [i \in 1..(Len(lib) - 1) |-> IF i < k THEN lib[i] ELSE lib[i + 1]]

\* C1: remove with a title that is non-empty after trimming deletes exactly the
\* first record whose title equals it case-insensitively, keeps every other
\* record in its order and reports found; with no such record the library is
\* unchanged and not-found is reported.
C1_RemoveFirstMatch ==
    (Entered("Remove a Book") /\ input.clicked /\ strip(input.title) # <<>>
        /\ AllBooks(called))
    => LET hits == TitleHits(called, input.title)
       IN  IF hits # {}
           THEN LET k == CHOOSE i \in hits : \A j \in hits : i <= j
                IN  outcome = "removed" /\ library = Without(called, k)
           ELSE outcome = "BookNotFound" /\ library = called

\* Two different records titled alike were in the library, the title was typed
\* in another case with a blank after it, and the later record survived.
C1_Witness ==
    /\ Entered("Remove a Book") /\ input.clicked /\ outcome = "removed"
    /\ AllBooks(called)
    /\ input.title # strip(input.title)
    /\ \E i, j \in TitleHits(called, input.title) :
          /\ i < j /\ called[i] # called[j]
          /\ called[i].title # strip(input.title)
          /\ library = Without(called, i)
          /\ called[j] \in Range(library)

\* The records of `lib` whose field holds the trimmed term, whatever the case.
TrimmedMatches(lib, search_by, term) ==
    SelectSeq(lib, LAMBDA book :
        Contains(lower(strip(term)),
                 lower(IF search_by = "Title" THEN book.title ELSE book.author)))

\* C2: search trims the term before matching and shows exactly the records
\* whose chosen field contains the trimmed term case-insensitively, in library
\* order, leaving the library as it was.
C2_SearchTrimsTerm ==
    (Entered("Search for a Book") /\ input.clicked /\ strip(input.term) # <<>>
        /\ AllBooks(called))
    => /\ matches = TrimmedMatches(called, input.search_by, input.term)
       /\ library = called

\* C3: when Save and Exit completes without an I/O failure, the file holds
\* exactly the library as it was when the entry was chosen, and loading the
\* file gives that library back.
C3_SaveRoundTrip ==
    [][(menu' = "Save and Exit" /\ outcome' = "saved")
          => /\ file'.kind = "text"
             /\ json_load(file'.text).ok
             /\ json_load(file'.text).value = library]_vars

\* C4: after the first run's load, the library changes only by a successful
\* add, which appends one record, or a successful remove, which deletes one.
C4_OnlyAddRemoveChange ==
    [][(started /\ library' # library)
          => \/ /\ menu' = "Add a Book" /\ outcome' = "added"
                /\ Len(library') = Len(library) + 1
                /\ SubSeq(library', 1, Len(library)) = library
             \/ /\ menu' = "Remove a Book" /\ outcome' = "removed"
                /\ \E k \in 1..Len(library) : library' = Without(library, k)]_vars

Trimmed(s) == s # <<>> /\ strip(s) = s

ValidBook(b) ==
    /\ Trimmed(b.title) /\ Trimmed(b.author) /\ Trimmed(b.genre)
    /\ MinYear <= b.year /\ b.year <= MaxYear

\* C5 as stated: every book of the library has trimmed non-empty title, author
\* and genre and a year in 1..2025, whatever file was loaded.
C5_EveryBookValid ==
    \A i \in 1..Len(library) : IsBook(library[i]) => ValidBook(library[i])

\* C5: a run puts a book that breaks the constraints into the library only by
\* decoding it from the file; every book add appends satisfies them.
C5_InvalidOnlyFromFile ==
    [][\A i \in 1..Len(library') :
          IsBook(library'[i])
          => \/ ValidBook(library'[i])
             \/ library'[i] \in Range(library)
             \/ /\ loadCond' = "loaded"
                /\ library'[i] \in Range(json_load(file.text).value)]_vars

\* A book typed with blanks around its fields was appended, trimmed, behind a
\* loaded book that breaks the constraints.
C5_Witness ==
    /\ Entered("Add a Book") /\ outcome = "added"
    /\ input.title # strip(input.title)
    /\ Len(library) = 2
    /\ IsBook(library[1]) /\ ~ValidBook(library[1])
    /\ ValidBook(library[2]) /\ library[2].title = strip(input.title)

\* C6: add with a title, author or genre that is blank after trimming, remove
\* with a blank title and search with a blank term report a validation error
\* and leave the library as it was.
C6_RejectionKeepsLibrary ==
    /\ (Entered("Add a Book") /\ input.submit
          /\ (strip(input.title) = <<>> \/ strip(input.author) = <<>>
                \/ strip(input.genre) = <<>>))
       => (outcome = "ValidationError" /\ library = called)
    /\ (Entered("Remove a Book") /\ input.clicked /\ strip(input.title) = <<>>)
       => (outcome = "ValidationError" /\ library = called)
    /\ (Entered("Search for a Book") /\ input.clicked /\ strip(input.term) = <<>>)
       => (outcome = "ValidationError" /\ library = called)

\* An add whose title is only blanks was rejected on a library that held books.
C6_Witness ==
    /\ Entered("Add a Book") /\ input.submit
    /\ input.title # <<>> /\ strip(input.title) = <<>>
    /\ outcome = "ValidationError"
    /\ called # <<>> /\ library = called

\* C7: whatever the file holds, no run ends in an uncaught fault, and a failed
\* save leaves the library as it was.
C7_NoUncaughtFault ==
    /\ outcome # "fault"
    /\ (menu = "Save and Exit" /\ outcome = "IOFailure") => library = called

\* C8: load on a missing file gives the empty library and NotFound; on a text
\* that is not well-formed, the empty library and CorruptData; only on a text
\* that parses, the decoded records in file order.
C8_LoadOutcomes ==
    [][(loadCond' # "none" /\ file.kind # "unreadable")
          => /\ file.kind = "absent"
                => (called' = <<>> /\ loadCond' = "NotFound")
             /\ (file.kind = "text" /\ ~json_load(file.text).ok)
                => (called' = <<>> /\ loadCond' = "CorruptData")
             /\ (file.kind = "text" /\ json_load(file.text).ok)
                => (called' = json_load(file.text).value /\ loadCond' = "loaded")]_vars

\* The file held a text that does not parse, and a later run loaded it again.
C8_Witness ==
    /\ loadCond = "CorruptData" /\ called = <<>>
    /\ menu = "Display Statistics" /\ outcome = "empty"
    /\ file.kind = "text" /\ ~json_load(file.text).ok

\* C9: only a Save and Exit run changes the file; load (on a missing, corrupt
\* or valid file), add, remove, search, list and statistics leave it alone.
C9_OnlySaveWrites ==
    [][file' # file => menu' = "Save and Exit"]_vars

\* A record was removed from a library that differs from what the file holds,
\* and the file still holds the old records.
C9_Witness ==
    /\ Entered("Remove a Book") /\ outcome = "removed"
    /\ file.kind = "text" /\ json_load(file.text).ok
    /\ json_load(file.text).value # library
    /\ json_load(file.text).value # <<>>

\* totalCount, readCount and percentRead of `lib` as the claim defines them;
\* the percentage is in tenths, the nearest to readCount / totalCount * 100.
StatsOf(lib, st) ==
    LET readers == {i \in 1..Len(lib) : lib[i].read}
    IN  /\ st.shown
        /\ st.total = Len(lib)
        /\ st.read = Cardinality(readers)
        /\ 0 <= st.read /\ st.read <= st.total
        /\ IF Len(lib) > 0
           THEN /\ 2 * (st.percent * Len(lib) - 1000 * st.read) <= Len(lib)
                /\ 2 * (1000 * st.read - st.percent * Len(lib)) <= Len(lib)
           ELSE st.percent = 0

\* C10 as stated: statistics gives the three figures for every library, the
\* empty one included (0, 0, 0).
C10_StatsForEveryLibrary ==
    (Entered("Display Statistics") /\ AllBooks(called)) => StatsOf(called, stats)

\* C10: statistics gives the three figures for every library that holds a
\* record; for the empty library it reports that the library is empty and
\* gives no figures, without a division by zero.
C10_StatsForNonEmpty ==
    (Entered("Display Statistics") /\ AllBooks(called))
    => IF called # <<>>
       THEN outcome = "stats" /\ StatsOf(called, stats)
       ELSE outcome = "empty" /\ stats = NoStats

\* Statistics ran on a library with a read and an unread book.
C10_Witness ==
    /\ Entered("Display Statistics") /\ outcome = "stats"
    /\ stats.total = 2 /\ stats.read = 1 /\ stats.percent = 500

====
